---- MODULE Spec2Model ----
(***************************************************************************)
(* Model of media-organizer.py: date resolution (get_exif_date,            *)
(* get_file_date) and the organize_files run over a small filesystem.      *)
(* Text is modelled as sequences of one-character strings, a path as the   *)
(* sequence of its segments, a date-time as a record of integers.          *)
(***************************************************************************)
EXTENDS Integers, Sequences, FiniteSets, TLC

\* ------------------------------------------------------------------ bounds
MaxFiles == 2        \* media files initially under the source tree
MaxSuffix == 2       \* highest _N suffix already present in the destination

\* ------------------------------------------------------- characters, text
DigitChars == <<"0","1","2","3","4","5","6","7","8","9">>
UpperChars == <<"A","B","C","D","E","F","G","H","I","J","K","L","M",
                "N","O","P","Q","R","S","T","U","V","W","X","Y","Z">>
LowerChars == <<"a","b","c","d","e","f","g","h","i","j","k","l","m",
                "n","o","p","q","r","s","t","u","v","w","x","y","z">>

Range(s) == {s[i] : i \in 1..Len(s)}

isdigit(c) == c \in Range(DigitChars)

\* str.isalnum on one character
isalnum(c) == c \in Range(DigitChars) \cup Range(UpperChars) \cup Range(LowerChars)

DigitVal(c) == CHOOSE v \in 0..9 : DigitChars[v + 1] = c

\* str.lower
lower(s) ==
    [i \in 1..Len(s) |->
        IF s[i] \in Range(UpperChars)
        THEN LowerChars[CHOOSE k \in 1..26 : UpperChars[k] = s[i]]
        ELSE s[i]]

\* str.replace(old, new) for a one-character old and new
replace(s, old, new) == [i \in 1..Len(s) |-> IF s[i] = old THEN new ELSE s[i]]

RECURSIVE IntToStr(_)
\* str(n) / f"{n}" for n >= 0
IntToStr(n) ==
    IF n < 10 THEN <<DigitChars[n + 1]>>
    ELSE IntToStr(n \div 10) \o <<DigitChars[(n % 10) + 1]>>

RECURSIVE ZeroPad(_, _)
\* zero padding of strftime("%Y"), ("%m"), ("%d")
ZeroPad(s, w) == IF Len(s) >= w THEN s ELSE ZeroPad(<<"0">> \o s, w)

RECURSIVE JoinWith(_, _)
\* sep.join(parts)
JoinWith(parts, sep) ==
    IF Len(parts) = 0 THEN <<>>
    ELSE IF Len(parts) = 1 THEN parts[1]
    ELSE parts[1] \o <<sep>> \o JoinWith(Tail(parts), sep)

RECURSIVE SplitOn(_, _)
\* s.split(sep)
SplitOn(s, sep) ==
    IF \E i \in 1..Len(s) : s[i] = sep
    THEN LET i == CHOOSE k \in 1..Len(s) : s[k] = sep /\ \A j \in 1..(k - 1) : s[j] # sep
         IN  <<SubSeq(s, 1, i - 1)>> \o SplitOn(SubSeq(s, i + 1, Len(s)), sep)
    ELSE <<s>>

\* os.path.splitext on a file name: split at the last dot unless only dots precede it
splitext(name) ==
    LET dots == {i \in 1..Len(name) : name[i] = "."}
        d == IF dots = {} THEN 0 ELSE CHOOSE i \in dots : \A j \in dots : j <= i
    IN  IF d > 0 /\ \E i \in 1..(d - 1) : name[i] # "."
        THEN <<SubSeq(name, 1, d - 1), SubSeq(name, d, Len(name))>>
        ELSE <<name, <<>>>>

endswith(s, suf) ==
    Len(s) >= Len(suf) /\ SubSeq(s, Len(s) - Len(suf) + 1, Len(s)) = suf

\* ------------------------------------------------------------------ dates
DateTime(y, mo, d, h, mi, s) ==
    [year |-> y, month |-> mo, day |-> d, hour |-> h, minute |-> mi, second |-> s]

IsLeap(y) == (y % 4 = 0 /\ y % 100 # 0) \/ y % 400 = 0

DaysInMonth(y, m) ==
    IF m = 2 THEN (IF IsLeap(y) THEN 29 ELSE 28)
    ELSE IF m \in {4, 6, 9, 11} THEN 30 ELSE 31

\* the run of at most maxLen digits of s starting at index i
DigitRun(s, i, maxLen) ==
    LET ok(n) == i + n - 1 <= Len(s) /\ \A k \in i..(i + n - 1) : isdigit(s[k])
        n == CHOOSE k \in 0..maxLen : ok(k) /\ \A j \in 0..maxLen : ok(j) => j <= k
        val[k \in 0..n] == IF k = 0 THEN 0 ELSE val[k - 1] * 10 + DigitVal(s[i + k - 1])
    IN  [len |-> n, val |-> val[n], next |-> i + n]

\* the index of the first character at or after i that is not a space
SkipSpaces(s, i) ==
    CHOOSE k \in i..(Len(s) + 1) :
        /\ \A j \in i..(k - 1) : s[j] = " "
        /\ (k <= Len(s) => s[k] # " ")

NoDate == [none |-> TRUE]

\* datetime.strptime(value, '%Y:%m:%d %H:%M:%S'); NoDate stands for ValueError
strptime(value) ==
    LET at(i, c) == i <= Len(value) /\ value[i] = c
        Y  == DigitRun(value, 1, 4)
        Mo == DigitRun(value, Y.next + 1, 2)
        D  == DigitRun(value, Mo.next + 1, 2)
        sp == SkipSpaces(value, D.next)
        H  == DigitRun(value, sp, 2)
        Mi == DigitRun(value, H.next + 1, 2)
        S  == DigitRun(value, Mi.next + 1, 2)
    IN  IF /\ Y.len = 4 /\ at(Y.next, ":")
           /\ Mo.len >= 1 /\ Mo.val \in 1..12 /\ at(Mo.next, ":")
           /\ D.len >= 1 /\ D.val \in 1..31
           /\ sp > D.next
           /\ H.len >= 1 /\ H.val \in 0..23 /\ at(H.next, ":")
           /\ Mi.len >= 1 /\ Mi.val \in 0..59 /\ at(Mi.next, ":")
           /\ S.len >= 1 /\ S.val \in 0..59
           /\ S.next = Len(value) + 1
           /\ Y.val >= 1
           /\ D.val <= DaysInMonth(Y.val, Mo.val)
        THEN DateTime(Y.val, Mo.val, D.val, H.val, Mi.val, S.val)
        ELSE NoDate

\* determined_date.strftime("%Y")
strftime_Y(d) == ZeroPad(IntToStr(d.year), 4)

\* determined_date.strftime("%Y_%m_%d")
strftime_Ymd(d) ==
    strftime_Y(d) \o <<"_">> \o ZeroPad(IntToStr(d.month), 2)
                  \o <<"_">> \o ZeroPad(IntToStr(d.day), 2)


\* ------------------------------------------------- names used by the model
N_src == <<"s","r","c">>

N_out == <<"o","u","t">>

N_Vacation == <<"V","a","c","a","t","i","o","n">>

N_FamilyTrip == <<"F","a","m","i","l","y"," ","T","r","i","p"," ","-"," ","2","0","2","4">>

N_Day1 == <<"D","a","y",".","1">>

N_beachJPG == <<"b","e","a","c","h",".","J","P","G">>

N_beachjpg == <<"b","e","a","c","h",".","j","p","g">>

N_IMG_1 == <<"I","M","G","_","1",".","j","p","g">>

N_IMG_0001 == <<"I","M","G","_","0","0","0","1",".","j","p","g">>

N_reefPNG == <<"r","e","e","f",".","P","N","G">>

N_notes == <<"n","o","t","e","s",".","t","x","t">>

N_clip == <<"c","l","i","p",".","m","p","4">>

N_2022 == <<"2","0","2","2">>

N_2022_07 == <<"2","0","2","2","_","0","7">>

N_2023 == <<"2","0","2","3">>

N_2024 == <<"2","0","2","4">>

N_2024_05 == <<"2","0","2","4","_","0","5">>

N_Existing == <<"2","0","2","4","_","0","5","_","1","2","_","I","M","G","_","0","0","0","1">>

T_WellFormed == <<"2","0","2","2",":","0","7",":","0","4"," ","1","0",":","0","0",":","0","0">>

T_Unpadded == <<"2","0","2","2",":","7",":","4"," ","1","0",":","0",":","0">>

T_BadMonth == <<"2","0","2","2",":","1","3",":","0","4"," ","1","0",":","0","0",":","0","0">>

T_Garbage == <<"n","o"," ","d","a","t","e">>

\* --------------------------------------------------- program constants
image_extensions == {<<".","j","p","g">>, <<".","j","p","e","g">>, <<".","p","n","g">>, <<".","g","i","f">>, <<".","b","m","p">>, <<".","t","i","f">>, <<".","t","i","f","f">>, <<".","h","e","i","c">>}

video_extensions == {<<".","m","p","4">>, <<".","m","o","v">>, <<".","a","v","i">>, <<".","w","m","v">>, <<".","m","k","v">>, <<".","f","l","v">>, <<".","w","e","b","m">>}

accepted_extensions == image_extensions \cup video_extensions

\* month_names[month_num - 1]
month_names == <<<<"0","1">>, <<"0","2">>, <<"0","3">>, <<"0","4">>, <<"0","5">>, <<"0","6">>,
                 <<"0","7">>, <<"0","8">>, <<"0","9">>, <<"1","0">>, <<"1","1">>, <<"1","2">>>>

os_sep == "/"

\* ------------------------------------------------------- date resolution
\* what the metadata reader hands to get_exif_date: the open or _getexif call
\* raised, the image carries no DateTimeOriginal tag, or it carries this text
ExifError == [kind |-> "error", value |-> <<>>]

ExifNoTag == [kind |-> "notag", value |-> <<>>]

ExifTag(v) == [kind |-> "tag", value |-> v]

ExifReads ==
    {ExifError, ExifNoTag, ExifTag(T_WellFormed), ExifTag(T_Unpadded),
     ExifTag(T_BadMonth), ExifTag(T_Garbage)}

\* what os.path.getctime / os.path.getmtime deliver: a time or an exception
ReadFails == [ok |-> FALSE, date |-> NoDate]

ReadOk(d) == [ok |-> TRUE, date |-> d]

CtimeOk == ReadOk(DateTime(2023, 1, 2, 8, 30, 0))

MtimeOk == ReadOk(DateTime(2024, 5, 12, 17, 5, 9))

CtimeReads == {ReadFails, CtimeOk, ReadOk(DateTime(2022, 7, 4, 10, 0, 0))}

MtimeReads == {ReadFails, MtimeOk, ReadOk(DateTime(2023, 1, 2, 8, 30, 0))}

\* get_exif_date: the tag's date, or NoDate (Python None) on any failure
get_exif_date(exif) ==
    IF exif.kind = "tag" THEN strptime(exif.value) ELSE NoDate

\* get_file_date with the two filesystem tiers in the wrong order
get_file_date_mtime_first(filepath, exif, ct, mt) ==
    LET isImage == \E e \in image_extensions : endswith(lower(filepath), e)
        exif_date == get_exif_date(exif)
    IN  IF isImage /\ exif_date # NoDate THEN ReadOk(exif_date)
        ELSE IF mt.ok THEN ReadOk(mt.date)
        ELSE IF ct.ok THEN ReadOk(ct.date)
        ELSE ReadFails

\* get_file_date that answers with the epoch instead of raising
get_file_date_defaulting(filepath, exif, ct, mt) ==
    LET isImage == \E e \in image_extensions : endswith(lower(filepath), e)
        exif_date == get_exif_date(exif)
    IN  IF isImage /\ exif_date # NoDate THEN ReadOk(exif_date)
        ELSE IF ct.ok THEN ReadOk(ct.date)
        ELSE IF mt.ok THEN ReadOk(mt.date)
        ELSE ReadOk(DateTime(1970, 1, 1, 0, 0, 0))

\* get_file_date: [ok |-> FALSE] stands for the exception leaving the function
get_file_date(filepath, exif, ct, mt) ==
    LET isImage == \E e \in image_extensions : endswith(lower(filepath), e)
        exif_date == get_exif_date(exif)
    IN  IF isImage /\ exif_date # NoDate THEN ReadOk(exif_date)
        ELSE IF ct.ok THEN ReadOk(ct.date)
        ELSE IF mt.ok THEN ReadOk(mt.date)
        ELSE ReadFails

\* ------------------------------------------------------ placement planning
\* os.path.relpath(root, normalized_source_path), as text
relpath(root, source) ==
    IF Len(root) = Len(source) THEN <<".">>
    ELSE JoinWith(SubSeq(root, Len(source) + 1, Len(root)), os_sep)

\* cleaned_part that forgets to turn hyphens into underscores
cleaned_part_no_hyphen(part) ==
    LET keep(c) == isalnum(c) \/ c = "_"
    IN  SelectSeq(replace(replace(part, " ", "_"), ".", "_"), keep)

\* lines 107-108: the cleaned form of one folder name
cleaned_part(part) ==
    LET keep(c) == isalnum(c) \/ c = "_"
    IN  SelectSeq(replace(replace(replace(part, " ", "_"), ".", "_"), "-", "_"), keep)

\* lines 101-115: the folder prefix of the new file name
folder_name_prefix(relative_folder_path) ==
    LET folder_name_parts ==
            IF relative_folder_path = <<".">> THEN <<>>
            ELSE SplitOn(relative_folder_path, os_sep)
        nonEmpty(p) == p # <<>>
        cleaned_folder_names ==
            SelectSeq([i \in 1..Len(folder_name_parts) |-> cleaned_part(folder_name_parts[i])],
                      nonEmpty)
    IN  IF cleaned_folder_names # <<>>
        THEN <<"_">> \o JoinWith(cleaned_folder_names, "_")
        ELSE <<>>

\* line 128
new_filename_base(determined_date, relative_folder_path, base_name) ==
    strftime_Ymd(determined_date) \o folder_name_prefix(relative_folder_path)
        \o <<"_">> \o base_name

\* lines 84 and 129: the extension that goes into the new file name
name_extension(filename) == lower(splitext(filename)[2])

\* lines 123-124
year_folder_path(destination, determined_date) ==
    Append(destination, strftime_Y(determined_date))

month_folder_path(destination, determined_date) ==
    Append(year_folder_path(destination, determined_date),
           strftime_Y(determined_date) \o <<"_">> \o month_names[determined_date.month])

\* os.path.exists over the modelled filesystem
path_exists(fileMap, dirSet, path) == path \in DOMAIN fileMap \/ path \in dirSet

RECURSIVE resolve_collision_skip_one(_, _, _, _, _, _, _)
\* the while loop with the counter incremented before it is used
resolve_collision_skip_one(fileMap, dirSet, folder, base, ext, name, counter) ==
    IF path_exists(fileMap, dirSet, Append(folder, name))
    THEN resolve_collision_skip_one(fileMap, dirSet, folder, base, ext,
                                    base \o <<"_">> \o IntToStr(counter + 1) \o ext,
                                    counter + 1)
    ELSE name

\* the duplicate handling written as an if instead of a while
resolve_collision_once(fileMap, dirSet, folder, base, ext, name, counter) ==
    IF path_exists(fileMap, dirSet, Append(folder, name))
    THEN base \o <<"_">> \o IntToStr(counter) \o ext
    ELSE name

RECURSIVE resolve_collision(_, _, _, _, _, _, _)
\* lines 134-138: the while loop, entered with the tentative name and counter = 1
resolve_collision(fileMap, dirSet, folder, base, ext, name, counter) ==
    IF path_exists(fileMap, dirSet, Append(folder, name))
    THEN resolve_collision(fileMap, dirSet, folder, base, ext,
                           base \o <<"_">> \o IntToStr(counter) \o ext, counter + 1)
    ELSE name

\* ------------------------------------------------------------------ state
VARIABLES
    fs,                 \* the files on disk: path |-> identity (the path it first had)
    dirs,               \* the directories on disk
    source_path, destination_path, what_if,     \* arguments of organize_files
    pc,                 \* "start", "walk", "done" or "cancelled"
    stack,              \* os.walk: directories still to be scanned
    root, files,        \* os.walk: directory being yielded, its file names not yet iterated
    processed_count, skipped_count, error_count,
    reported_total,     \* the printed "Total Files Examined", -1 before the summary
    fs0, dirs0,         \* history: the filesystem when organize_files was called
    enumerated,         \* history: the files the loop at line 83 has taken, in order
    moveCount,          \* history: identity |-> number of shutil.move calls on that file
    plans,              \* history: the placements printed at line 142, in order,
                        \*          each marked executed once line 147 has moved the file
    lastRead            \* history: inputs and outcome of the latest get_file_date call

vars == <<fs, dirs, source_path, destination_path, what_if, pc, stack, root, files,
          processed_count, skipped_count, error_count, reported_total,
          fs0, dirs0, enumerated, moveCount, plans, lastRead>>

\* ------------------------------------------------------- initial filesystem
SourcePool ==
    {<<N_src, N_Vacation, N_beachJPG>>,
     <<N_src, N_Vacation, N_beachjpg>>,
     <<N_src, N_IMG_1>>,
     <<N_src, N_IMG_0001>>,
     <<N_src, N_FamilyTrip, N_Day1, N_IMG_1>>,
     <<N_src, N_Vacation, N_reefPNG>>,
     <<N_src, N_notes>>,
     <<N_src, N_clip>>}

\* what the three readers deliver for each file, by the path the file first had
MetaOf(id) ==
    IF id \in {<<N_src, N_Vacation, N_beachJPG>>, <<N_src, N_Vacation, N_beachjpg>>}
    THEN [exif |-> ExifTag(T_WellFormed), ct |-> CtimeOk, mt |-> MtimeOk]
    ELSE IF id = <<N_src, N_IMG_1>>
    THEN [exif |-> ExifNoTag, ct |-> CtimeOk, mt |-> MtimeOk]
    ELSE IF id = <<N_src, N_IMG_0001>>
    THEN [exif |-> ExifTag(T_BadMonth), ct |-> ReadFails, mt |-> MtimeOk]
    ELSE IF id = <<N_src, N_FamilyTrip, N_Day1, N_IMG_1>>
    THEN [exif |-> ExifTag(T_Unpadded), ct |-> CtimeOk, mt |-> ReadFails]
    ELSE IF id = <<N_src, N_clip>>
    THEN [exif |-> ExifTag(T_WellFormed), ct |-> ReadFails, mt |-> ReadFails]
    ELSE IF id = <<N_src, N_Vacation, N_reefPNG>>
    THEN [exif |-> ExifError, ct |-> ReadFails, mt |-> ReadFails]
    ELSE [exif |-> ExifError, ct |-> CtimeOk, mt |-> MtimeOk]

DestinationChoices == {<<N_out>>, <<N_src, N_out>>}

\* the k-th candidate of the collision sequence for IMG_0001.jpg dated 2024-05-12
ExistingName(k) ==
    N_Existing \o (IF k = 0 THEN <<>> ELSE <<"_">> \o IntToStr(k)) \o <<".","j","p","g">>

ExistingPath(dest, k) == dest \o <<N_2024, N_2024_05, ExistingName(k)>>

\* a plain file sitting where a year or month folder would have to be made
BlockerPaths(dest, blocker) ==
    IF blocker = "year" THEN {dest \o <<N_2023>>}
    ELSE IF blocker = "month" THEN {dest \o <<N_2022, N_2022_07>>}
    ELSE {}

\* every directory that has to exist for these files to exist
ParentDirs(paths) == UNION {{SubSeq(p, 1, n) : n \in 1..(Len(p) - 1)} : p \in paths}

NoRead == [n |-> 0, filename |-> <<>>, exif |-> ExifNoTag, ct |-> ReadFails,
           mt |-> ReadFails, result |-> ReadFails]

Init ==
    /\ source_path = <<N_src>>
    /\ destination_path \in DestinationChoices
    /\ what_if \in BOOLEAN
    /\ \E srcFiles \in SUBSET SourcePool, sufs \in SUBSET (0..MaxSuffix),
          blocker \in {"none", "year", "month"}, destMade \in BOOLEAN :
         LET pre == {ExistingPath(destination_path, k) : k \in sufs}
                        \cup BlockerPaths(destination_path, blocker)
             all == srcFiles \cup pre
         IN  /\ Cardinality(srcFiles) <= MaxFiles
             /\ (pre # {} => destMade /\ destination_path = <<N_out>>)
             /\ (sufs # {} => blocker = "none")
             /\ fs = [p \in all |-> p]
             /\ dirs = ParentDirs(all) \cup {source_path}
                        \cup (IF destMade THEN {destination_path} ELSE {})
    /\ fs0 = fs
    /\ dirs0 = dirs
    /\ pc = "start"
    /\ stack = <<>>
    /\ root = <<>>
    /\ files = {}
    /\ processed_count = 0
    /\ skipped_count = 0
    /\ error_count = 0
    /\ reported_total = -1
    /\ enumerated = <<>>
    /\ moveCount = [p \in DOMAIN fs |-> 0]
    /\ plans = <<>>
    /\ lastRead = NoRead

\* ---------------------------------------------------------------- actions
\* os.makedirs(path, exist_ok=True): the directories it leaves behind
makedirs(dirSet, path) == dirSet \cup {SubSeq(path, 1, n) : n \in 1..Len(path)}

\* lines 67-80: the confirmation prompt, the destination root, the start of the walk
Start ==
    /\ pc = "start"
    /\ \E confirm \in {"yes", "no"} :
         IF what_if \/ confirm = "yes"
         THEN /\ dirs' = makedirs(dirs, destination_path)
              /\ stack' = <<source_path>>
              /\ pc' = "walk"
         ELSE /\ pc' = "cancelled"
              /\ UNCHANGED <<dirs, stack>>
    /\ UNCHANGED <<fs, source_path, destination_path, what_if, root, files,
                   processed_count, skipped_count, error_count, reported_total,
                   fs0, dirs0, enumerated, moveCount, plans, lastRead>>

\* all orders in which scandir may list a set of entries
Orders(S) ==
    {o \in [1..Cardinality(S) -> S] : \A i, j \in 1..Cardinality(S) : o[i] = o[j] => i = j}

\* line 82: os.walk takes the next directory, lists it, and queues its subdirectories
Scan ==
    /\ pc = "walk"
    /\ files = {}
    /\ stack # <<>>
    /\ LET top == Head(stack)
           subdirs == {d \in dirs : Len(d) = Len(top) + 1 /\ SubSeq(d, 1, Len(top)) = top}
       IN  /\ root' = top
           /\ files' = {p[Len(p)] : p \in {q \in DOMAIN fs :
                            Len(q) = Len(top) + 1 /\ SubSeq(q, 1, Len(top)) = top}}
           /\ \E o \in Orders(subdirs) : stack' = o \o Tail(stack)
    /\ UNCHANGED <<fs, dirs, source_path, destination_path, what_if, pc,
                   processed_count, skipped_count, error_count, reported_total,
                   fs0, dirs0, enumerated, moveCount, plans, lastRead>>

\* lines 99-138: the placement of one accepted file whose date is known
placement(fileMap, dirSet, source, destination, walkRoot, filename, determined_date) ==
    LET relative_folder_path == relpath(walkRoot, source)
        base_name == splitext(filename)[1]
        file_extension == name_extension(filename)
        stem == new_filename_base(determined_date, relative_folder_path, base_name)
        folder == month_folder_path(destination, determined_date)
    IN  [src |-> Append(walkRoot, filename),
         id |-> fileMap[Append(walkRoot, filename)],
         date |-> determined_date,
         rel |-> relative_folder_path,
         prefix |-> folder_name_prefix(relative_folder_path),
         base |-> base_name,
         stem |-> stem,
         ext |-> file_extension,
         year_folder |-> year_folder_path(destination, determined_date),
         folder |-> folder,
         name |-> resolve_collision(fileMap, dirSet, folder, stem, file_extension,
                                    stem \o file_extension, 1),
         executed |-> FALSE]

\* shutil.move(src, dst) for a dst that names no directory
move(fileMap, src, dst) ==
    [p \in (DOMAIN fileMap \ {src}) \cup {dst} |-> IF p = dst THEN fileMap[src] ELSE fileMap[p]]

\* lines 83-155: the loop body for one file name of the current directory
\* (lines 94-97 are not reachable: get_file_date returns a datetime, which is
\* always true, or raises)
ProcessFile ==
    /\ pc = "walk"
    /\ files # {}
    /\ \E filename \in files :
       \E original_filepath \in {Append(root, filename)} :
       \E meta \in {MetaOf(fs[original_filepath])} :
       \E result \in {get_file_date(filename, meta.exif, meta.ct, meta.mt)} :
       \E plan \in {IF result.ok
                     THEN placement(fs, dirs, source_path, destination_path, root,
                                    filename, result.date)
                     ELSE NoDate} :
         /\ files' = files \ {filename}
         /\ enumerated' = Append(enumerated, [path |-> original_filepath,
                                               id |-> fs[original_filepath]])
         /\ IF name_extension(filename) \notin accepted_extensions
            THEN \* lines 85-87
                 /\ skipped_count' = skipped_count + 1
                 /\ UNCHANGED <<fs, dirs, processed_count, error_count, moveCount,
                                plans, lastRead>>
            ELSE /\ lastRead' = [n |-> Len(enumerated) + 1, filename |-> filename,
                                 exif |-> meta.exif, ct |-> meta.ct, mt |-> meta.mt,
                                 result |-> result]
                 /\ IF ~result.ok
                    THEN \* get_file_date raised: lines 153-155
                         /\ error_count' = error_count + 1
                         /\ UNCHANGED <<fs, dirs, processed_count, skipped_count,
                                        moveCount, plans>>
                    ELSE /\ plans' = Append(plans, [plan EXCEPT !.executed =
                                    /\ ~what_if
                                    /\ plan.year_folder \notin DOMAIN fs
                                    /\ plan.folder \notin DOMAIN fs])
                         /\ IF what_if
                            THEN \* line 151
                                 UNCHANGED <<fs, dirs, processed_count, skipped_count,
                                             error_count, moveCount>>
                            ELSE IF plan.year_folder \in DOMAIN fs
                            THEN \* line 145 raises FileExistsError
                                 /\ error_count' = error_count + 1
                                 /\ UNCHANGED <<fs, dirs, processed_count, skipped_count,
                                                moveCount>>
                            ELSE IF plan.folder \in DOMAIN fs
                            THEN \* line 146 raises FileExistsError
                                 /\ dirs' = makedirs(dirs, plan.year_folder)
                                 /\ error_count' = error_count + 1
                                 /\ UNCHANGED <<fs, processed_count, skipped_count,
                                                moveCount>>
                            ELSE \* lines 145-148
                                 /\ dirs' = makedirs(dirs, plan.folder)
                                 /\ fs' = move(fs, original_filepath,
                                               Append(plan.folder, plan.name))
                                 /\ moveCount' = [moveCount EXCEPT ![plan.id] = @ + 1]
                                 /\ processed_count' = processed_count + 1
                                 /\ UNCHANGED <<skipped_count, error_count>>
    /\ UNCHANGED <<source_path, destination_path, what_if, pc, stack, root,
                   reported_total, fs0, dirs0>>

\* lines 157-162: the walk is exhausted, the summary is printed
Finish ==
    /\ pc = "walk"
    /\ files = {}
    /\ stack = <<>>
    /\ pc' = "done"
    /\ reported_total' = processed_count + skipped_count + error_count
    /\ UNCHANGED <<fs, dirs, source_path, destination_path, what_if, stack, root, files,
                   processed_count, skipped_count, error_count,
                   fs0, dirs0, enumerated, moveCount, plans, lastRead>>

Next == Start \/ Scan \/ ProcessFile \/ Finish

Spec == Init /\ [][Next]_vars

\* ------------------------------------- get_file_date on its own, all inputs
FileNames == {N_beachJPG, N_beachjpg, N_IMG_1, N_reefPNG, N_clip}

InitDate ==
    /\ source_path = <<N_src>>
    /\ destination_path = <<N_out>>
    /\ what_if = TRUE
    /\ fs = << >>
    /\ dirs = {source_path}
    /\ fs0 = fs
    /\ dirs0 = dirs
    /\ pc = "resolve"
    /\ stack = <<>>
    /\ root = source_path
    /\ files = {}
    /\ processed_count = 0
    /\ skipped_count = 0
    /\ error_count = 0
    /\ reported_total = -1
    /\ enumerated = <<>>
    /\ moveCount = << >>
    /\ plans = <<>>
    /\ \E filename \in FileNames, exif \in ExifReads, ct \in CtimeReads, mt \in MtimeReads :
         lastRead = [n |-> 0, filename |-> filename, exif |-> exif, ct |-> ct, mt |-> mt,
                     result |-> ReadFails]

\* one call get_file_date(os.path.join(root, filename))
ResolveDate ==
    /\ pc = "resolve"
    /\ lastRead' = [lastRead EXCEPT
                      !.n = 1,
                      !.result = get_file_date(lastRead.filename, lastRead.exif,
                                               lastRead.ct, lastRead.mt)]
    /\ pc' = "resolved"
    /\ UNCHANGED <<fs, dirs, source_path, destination_path, what_if, stack, root, files,
                   processed_count, skipped_count, error_count, reported_total,
                   fs0, dirs0, enumerated, moveCount, plans>>

NextDate == ResolveDate

SpecDate == InitDate /\ [][NextDate]_vars

TypeOK ==
    /\ pc \in {"start", "walk", "done", "cancelled", "resolve", "resolved"}
    /\ processed_count \in Nat /\ skipped_count \in Nat /\ error_count \in Nat
    /\ \A p \in DOMAIN fs : p \notin dirs

\* ============================================================ properties
\* expected texts, written out
L_beach_JPG == <<"2","0","2","2","_","0","7","_","0","4","_","V","a","c","a","t","i","o","n","_","b","e","a","c","h",".","J","P","G">>

L_IMG_0001_2 == <<"2","0","2","4","_","0","5","_","1","2","_","I","M","G","_","0","0","0","1","_","2",".","j","p","g">>

L_IMG_0001_stem == <<"2","0","2","4","_","0","5","_","1","2","_","I","M","G","_","0","0","0","1">>

L_FamilyRel == <<"F","a","m","i","l","y"," ","T","r","i","p"," ","-"," ","2","0","2","4","/","D","a","y",".","1">>

L_FamilyPrefixStated == <<"_","F","a","m","i","l","y","_","T","r","i","p","_","2","0","2","4","_","D","a","y","_","1">>

L_FamilyPrefixActual == <<"_","F","a","m","i","l","y","_","T","r","i","p","_","_","_","2","0","2","4","_","D","a","y","_","1">>

L_IMG_1_name == <<"2","0","2","3","_","0","1","_","0","2","_","I","M","G","_","1",".","j","p","g">>

L_jpg == <<".","j","p","g">>

L_IMG_1_base == <<"I","M","G","_","1">>

ImageNames == {N_beachJPG, N_beachjpg, N_IMG_1, N_IMG_0001, N_reefPNG}

\* the decimal value of the digits v[a..b]
Num(v, a, b) ==
    LET acc[k \in (a - 1)..b] == IF k = a - 1 THEN 0 ELSE acc[k - 1] * 10 + DigitVal(v[k])
    IN  acc[b]

ValidFields(y, mo, d, h, mi, sec) ==
    /\ y >= 1 /\ mo \in 1..12 /\ d >= 1 /\ d <= DaysInMonth(y, mo)
    /\ h \in 0..23 /\ mi \in 0..59 /\ sec \in 0..59

\* a tag of exactly the form YYYY:MM:DD HH:MM:SS naming a real date-time
WellFormedTag(v) ==
    /\ Len(v) = 19
    /\ \A i \in 1..19 :
         IF i \in {5, 8, 14, 17} THEN v[i] = ":"
         ELSE IF i = 11 THEN v[i] = " "
         ELSE isdigit(v[i])
    /\ ValidFields(Num(v, 1, 4), Num(v, 6, 7), Num(v, 9, 10),
                   Num(v, 12, 13), Num(v, 15, 16), Num(v, 18, 19))

TagDate(v) ==
    DateTime(Num(v, 1, 4), Num(v, 6, 7), Num(v, 9, 10),
             Num(v, 12, 13), Num(v, 15, 16), Num(v, 18, 19))

\* a tag that is no date-time text at all: it does not split into a date and a time
\* of three numeric fields each, or a field is too long or out of range
MalformedTag(v) ==
    LET isNumber(t) == t # <<>> /\ \A i \in 1..Len(t) : isdigit(t[i])
        nonEmpty(t) == t # <<>>
        halves == SelectSeq(SplitOn(v, " "), nonEmpty)
        dp == SplitOn(halves[1], ":")
        tp == SplitOn(halves[2], ":")
    IN  ~ /\ v # <<>> /\ v[1] # " " /\ v[Len(v)] # " "
          /\ Len(halves) = 2
          /\ Len(dp) = 3 /\ Len(tp) = 3
          /\ \A i \in 1..3 : isNumber(dp[i]) /\ isNumber(tp[i])
          /\ Len(dp[1]) = 4
          /\ \A i \in 2..3 : Len(dp[i]) <= 2
          /\ \A i \in 1..3 : Len(tp[i]) <= 2
          /\ ValidFields(Num(dp[1], 1, 4), Num(dp[2], 1, Len(dp[2])), Num(dp[3], 1, Len(dp[3])),
                         Num(tp[1], 1, Len(tp[1])), Num(tp[2], 1, Len(tp[2])),
                         Num(tp[3], 1, Len(tp[3])))

Tier1Miss(r) ==
    \/ r.filename \notin ImageNames
    \/ r.exif.kind # "tag"
    \/ MalformedTag(r.exif.value)

\* C1: two distinct accepted files with the same resolved date, the same relative
\* source folder and the same base name are given different destination paths,
\* in move mode and in what-if mode alike.
C1_DistinctDestinations ==
    \A i, j \in 1..Len(plans) :
        (/\ i < j
         /\ (what_if \/ (plans[i].executed /\ plans[j].executed))
         /\ plans[i].id # plans[j].id
         /\ plans[i].date = plans[j].date
         /\ plans[i].rel = plans[j].rel
         /\ plans[i].base = plans[j].base)
        => <<plans[i].folder, plans[i].name>> # <<plans[j].folder, plans[j].name>>

\* C2: a finished what-if run has left the filesystem as it found it: no file
\* moved or renamed, no directory created (the destination root included).
C2_DryRunChangesNothing ==
    (what_if /\ pc = "done") => (fs = fs0 /\ dirs = dirs0)

C4_ExtensionCaseKept ==
    \A i \in 1..Len(plans) :
        LET p == plans[i]
        IN  /\ splitext(p.name)[2] = splitext(p.src[Len(p.src)])[2]
            /\ (i = 1 /\ p.src = <<N_src, N_Vacation, N_beachJPG>> /\ destination_path = <<N_out>>)
                => (p.folder = <<N_out, N_2022, N_2022_07>> /\ p.name = L_beach_JPG)

\* C5: when both timestamp reads fail for a file (and tier 1 missed or does not
\* apply) date resolution fails, the file is not moved, it is counted once in
\* error_count, and the loop goes on: at the end every file that was under the
\* source root has been taken by the loop.
C5_FailureIsolated ==
    /\ [][(/\ Len(enumerated') = Len(enumerated) + 1
           /\ lastRead'.n = Len(enumerated')
           /\ ~lastRead'.ct.ok /\ ~lastRead'.mt.ok
           /\ Tier1Miss(lastRead'))
          => (/\ ~lastRead'.result.ok
              /\ error_count' = error_count + 1
              /\ processed_count' = processed_count
              /\ skipped_count' = skipped_count
              /\ fs' = fs /\ dirs' = dirs /\ plans' = plans /\ moveCount' = moveCount
              /\ pc' = "walk"
              /\ files' = files \ {lastRead'.filename})]_vars
    /\ [](pc = "done" =>
            \A p \in DOMAIN fs0 :
                SubSeq(p, 1, Len(source_path)) = source_path
                => \E i \in 1..Len(enumerated) : enumerated[i].id = p)

\* a finished move run in which a file failed date resolution and a file taken
\* after it was moved
C5_Witness ==
    /\ pc = "done"
    /\ ~what_if
    /\ error_count = 1
    /\ \E i, j \in 1..Len(enumerated) :
         /\ i < j
         /\ ~MetaOf(enumerated[i].id).ct.ok /\ ~MetaOf(enumerated[i].id).mt.ok
         /\ name_extension(enumerated[i].path[Len(enumerated[i].path)]) \in accepted_extensions
         /\ moveCount[enumerated[j].id] = 1

\* the k-th name of the sequence base+ext, base_1+ext, base_2+ext, ...
Candidate(stem, ext, k) ==
    stem \o (IF k = 0 THEN <<>> ELSE <<"_">> \o IntToStr(k)) \o ext

\* C6: the name chosen for a file is the first candidate of base+ext, base_1+ext,
\* base_2+ext, ... that does not exist in the month folder: no suffix if the plain
\* name is free, suffix _k if exactly the plain name and _1 .. _(k-1) exist; with
\* 2024_05_12_IMG_0001.jpg and 2024_05_12_IMG_0001_1.jpg present the choice is
\* 2024_05_12_IMG_0001_2.jpg.
C6_FirstFreeCandidate ==
    [][Len(plans') = Len(plans) + 1 =>
        LET p == plans'[Len(plans')]
            taken(k) == path_exists(fs, dirs, Append(p.folder, Candidate(p.stem, p.ext, k)))
        IN  /\ \E k \in 0..(MaxSuffix + MaxFiles + 1) :
                 /\ p.name = Candidate(p.stem, p.ext, k)
                 /\ ~taken(k)
                 /\ \A j \in 0..(k - 1) : taken(j)
            /\ (p.stem = L_IMG_0001_stem /\ p.ext = L_jpg /\ taken(0) /\ taken(1) /\ ~taken(2))
                => p.name = L_IMG_0001_2]_vars

C6_Witness ==
    /\ ExistingPath(destination_path, 0) \in DOMAIN fs0
    /\ ExistingPath(destination_path, 1) \in DOMAIN fs0
    /\ ExistingPath(destination_path, 2) \notin DOMAIN fs0
    /\ \E i \in 1..Len(plans) :
         /\ plans[i].src = <<N_src, N_IMG_0001>>
         /\ plans[i].name = L_IMG_0001_2

\* C7 as stated: folder "Family Trip - 2024/Day.1" gives the prefix
\* _Family_Trip_2024_Day_1; a file directly under the root gets no prefix, so
\* IMG_1.jpg dated 2023-01-02 becomes 2023_01_02_IMG_1.jpg.
C7_PrefixAsStated ==
    \A i \in 1..Len(plans) :
        LET p == plans[i]
        IN  /\ p.rel = L_FamilyRel => p.prefix = L_FamilyPrefixStated
            /\ p.rel = <<".">> =>
                 /\ p.prefix = <<>>
                 /\ (p.base = L_IMG_1_base /\ p.ext = L_jpg
                       /\ p.date.year = 2023 /\ p.date.month = 1 /\ p.date.day = 2)
                     => p.stem \o p.ext = L_IMG_1_name

\* C7 amended: folder "Family Trip - 2024/Day.1" gives the prefix
\* _Family_Trip___2024_Day_1 (each of " ", "-", " " becomes its own underscore);
\* a file directly under the root gets no prefix, so IMG_1.jpg dated 2023-01-02
\* becomes 2023_01_02_IMG_1.jpg.
C7_PrefixAmended ==
    \A i \in 1..Len(plans) :
        LET p == plans[i]
        IN  /\ p.rel = L_FamilyRel =>
                 /\ p.prefix = L_FamilyPrefixActual
                 /\ p.stem = strftime_Ymd(p.date) \o L_FamilyPrefixActual \o <<"_">> \o p.base
            /\ p.rel = <<".">> =>
                 /\ p.prefix = <<>>
                 /\ (p.base = L_IMG_1_base /\ p.ext = L_jpg
                       /\ p.date.year = 2023 /\ p.date.month = 1 /\ p.date.day = 2)
                     => p.stem \o p.ext = L_IMG_1_name

C7_Witness ==
    /\ \E i \in 1..Len(plans) : plans[i].rel = L_FamilyRel
    /\ \E i \in 1..Len(plans) :
         /\ plans[i].rel = <<".">>
         /\ plans[i].name = L_IMG_1_name

\* C8: in move mode no move lands on an existing path, so no file that was in the
\* destination tree and no file moved earlier is overwritten: every file present
\* at the start is still present, and the number of files is unchanged.
C8_NoFileOverwritten ==
    (~what_if /\ pc \in {"walk", "done"}) =>
        /\ Cardinality(DOMAIN fs) = Cardinality(DOMAIN fs0)
        /\ {fs[p] : p \in DOMAIN fs} = DOMAIN fs0

\* a file was moved to a suffixed name next to an older file holding the plain name
C8_Witness ==
    /\ ~what_if
    /\ \E i \in 1..Len(plans) :
         LET p == plans[i]
         IN  /\ p.executed
             /\ p.name # p.stem \o p.ext
             /\ Append(p.folder, p.name) \in DOMAIN fs
             /\ fs[Append(p.folder, p.name)] = p.id
             /\ Append(p.folder, p.stem \o p.ext) \in DOMAIN fs

\* C9: at the end of a run, in either mode, every file the walk produced has been
\* counted in exactly one of the three counters: the reported total equals the
\* number of files enumerated.
C9_TotalIsEnumerated ==
    pc = "done" =>
        /\ reported_total = processed_count + skipped_count + error_count
        /\ reported_total = Len(enumerated)

\* C10: in move mode a file is moved at most once per run and, once moved, is not
\* taken by the loop again, wherever the destination lies.
C10_MovedAtMostOnce ==
    /\ \A id \in DOMAIN moveCount : moveCount[id] <= 1
    /\ \A i, j \in 1..Len(enumerated) : i < j => enumerated[i].id # enumerated[j].id

====
